---------------------------- MODULE Spec2Model ----------------------------
(***************************************************************************)
(* A model of rename_videos.py: scan a folder for video files, probe each  *)
(* with ffprobe, build a rename plan and (with --apply) execute it.        *)
(*                                                                         *)
(* Strings are sequences of characters; a character is a one-letter TLA+   *)
(* string, except "fen" and "zhong", which stand for the two characters    *)
(* U+5206 and U+949F of the Chinese "minutes" unit.  Paths are relative to *)
(* the scanned folder, with "/" separating directories (POSIX).            *)
(***************************************************************************)
EXTENDS Integers, Sequences, FiniteSets, TLC

\* ------------------------------------------------------------------------
\* Characters and strings
\* ------------------------------------------------------------------------

Digit == {"0", "1", "2", "3", "4", "5", "6", "7", "8", "9"}

DigitChars == <<"0", "1", "2", "3", "4", "5", "6", "7", "8", "9">>

\* Unicode code points: Python compares str values code point by code point.
CodePoint ==
    ("-" :> 45) @@ ("." :> 46) @@ ("/" :> 47) @@
    ("0" :> 48) @@ ("1" :> 49) @@ ("2" :> 50) @@ ("3" :> 51) @@ ("4" :> 52) @@
    ("5" :> 53) @@ ("6" :> 54) @@ ("7" :> 55) @@ ("8" :> 56) @@ ("9" :> 57) @@
    ("A" :> 65) @@ ("D" :> 68) @@ ("I" :> 73) @@ ("M" :> 77) @@ ("N" :> 78) @@
    ("P" :> 80) @@ ("T" :> 84) @@ ("X" :> 88) @@ ("_" :> 95) @@
    ("a" :> 97) @@ ("d" :> 100) @@ ("i" :> 105) @@ ("m" :> 109) @@
    ("n" :> 110) @@ ("p" :> 112) @@ ("t" :> 116) @@ ("x" :> 120) @@
    ("fen" :> 20998) @@ ("zhong" :> 38047)

\* str.upper() on one character.
UpperChar(c) ==
    CASE c = "a" -> "A" [] c = "d" -> "D" [] c = "i" -> "I" [] c = "m" -> "M"
      [] c = "n" -> "N" [] c = "p" -> "P" [] c = "t" -> "T" [] c = "x" -> "X"
      [] OTHER -> c

Upper(s) == [k \in 1..Len(s) |-> UpperChar(s[k])]

\* str.lower() on one character.
LowerChar(c) ==
    CASE c = "A" -> "a" [] c = "D" -> "d" [] c = "I" -> "i" [] c = "M" -> "m"
      [] c = "N" -> "n" [] c = "P" -> "p" [] c = "T" -> "t" [] c = "X" -> "x"
      [] OTHER -> c

Lower(s) == [k \in 1..Len(s) |-> LowerChar(s[k])]

\* s[i..] (Python s[i-1:]).
Drop(s, i) == SubSeq(s, i, Len(s))

EndsWith(s, t) ==
    /\ Len(t) <= Len(s)
    /\ SubSeq(s, Len(s) - Len(t) + 1, Len(s)) = t

\* a < b for Python str: the first differing code point decides, a proper
\* prefix is smaller.
StrLess(a, b) ==
    \E k \in 0..Len(a) :
        /\ k <= Len(b)
        /\ SubSeq(a, 1, k) = SubSeq(b, 1, k)
        /\ \/ k = Len(a) /\ k < Len(b)
           \/ k < Len(a) /\ k < Len(b) /\ CodePoint[a[k + 1]] < CodePoint[b[k + 1]]

\* str(n) for an integer: decimal digits, "-" for a negative number.
RECURSIVE NatStr(_)
NatStr(n) ==
    IF n < 10 THEN <<DigitChars[n + 1]>>
    ELSE NatStr(n \div 10) \o <<DigitChars[(n % 10) + 1]>>

IntStr(n) == IF n < 0 THEN <<"-">> \o NatStr(-n) ELSE NatStr(n)

\* \d+ matching the whole of s.
IsDigits(s) == Len(s) > 0 /\ \A k \in 1..Len(s) : s[k] \in Digit

DigitValue(c) == CHOOSE v \in 0..9 : DigitChars[v + 1] = c

RECURSIVE DigitsValue(_)
DigitsValue(s) ==
    IF Len(s) = 0 THEN 0
    ELSE 10 * DigitsValue(SubSeq(s, 1, Len(s) - 1)) + DigitValue(s[Len(s)])

\* ------------------------------------------------------------------------
\* pathlib: name, stem, suffix, with_stem
\* ------------------------------------------------------------------------

LastIndexOf(s, c) ==
    LET hits == {k \in 1..Len(s) : s[k] = c}
    IN  IF hits = {} THEN 0 ELSE CHOOSE k \in hits : \A j \in hits : j <= k

\* Path.name: the final path component.
PathName(p) == Drop(p, LastIndexOf(p, "/") + 1)

\* The parent directory with its trailing "/" (empty for a top-level file).
PathParent(p) == SubSeq(p, 1, LastIndexOf(p, "/"))

\* Path.suffix: from the last dot of the name, unless that dot is the first
\* or the last character of the name.
PathSuffix(p) ==
    LET name == PathName(p)
        i    == LastIndexOf(name, ".")
    IN  IF 1 < i /\ i < Len(name) THEN Drop(name, i) ELSE <<>>

\* Path.stem: the name without its suffix.
PathStem(p) ==
    LET name == PathName(p)
    IN  SubSeq(name, 1, Len(name) - Len(PathSuffix(p)))

\* Path.with_stem(stem): same directory, same suffix.
WithStem(p, stem) == PathParent(p) \o stem \o PathSuffix(p)

\* ------------------------------------------------------------------------
\* The regular expressions
\* ------------------------------------------------------------------------

\* \d+x\d+ matching the whole of s.
IsResolution(s) ==
    \E k \in 1..Len(s) :
        /\ s[k] = "x"
        /\ IsDigits(SubSeq(s, 1, k - 1))
        /\ IsDigits(Drop(s, k + 1))

\* The start of the match of TRAILING_RESOLUTION_RE, _(\d+x\d+)$, in s, or 0.
\* The match, if any, starts at the last "_" of s.
TrailingResolutionAt(s) ==
    LET i == LastIndexOf(s, "_")
    IN  IF i > 0 /\ IsResolution(Drop(s, i + 1)) THEN i ELSE 0

\* ALREADY_TAGGED_RE.search(s): _\d+min_\d+x\d+$
AlreadyTagged(s) ==
    \E i \in 1..Len(s) : \E j \in (i + 1)..Len(s) :
        /\ s[i] = "_"
        /\ IsDigits(SubSeq(s, i + 1, j))
        /\ j + 4 <= Len(s)
        /\ SubSeq(s, j + 1, j + 3) = <<"m", "i", "n">>
        /\ TrailingResolutionAt(s) = j + 4

\* The length of the match of \d+<fen><zhong> starting at position i of s,
\* or 0: \d+ takes the whole run of digits, which the unit must follow.
RECURSIVE DigitRunEnd(_, _)
DigitRunEnd(s, i) ==
    IF i <= Len(s) /\ s[i] \in Digit THEN DigitRunEnd(s, i + 1) ELSE i

ChineseDurationLen(s, i) ==
    LET e == DigitRunEnd(s, i)
    IN  IF e > i /\ e + 1 <= Len(s) /\ s[e] = "fen" /\ s[e + 1] = "zhong"
        THEN e + 2 - i
        ELSE 0

\* CHINESE_DURATION_RE.sub(repl, s) from position i on: every
\* non-overlapping match, leftmost first, is replaced.
RECURSIVE SubChineseFrom(_, _, _)
SubChineseFrom(s, i, repl) ==
    IF i > Len(s) THEN <<>>
    ELSE LET n == ChineseDurationLen(s, i)
         IN  IF n > 0 THEN repl \o SubChineseFrom(s, i + n, repl)
             ELSE <<s[i]>> \o SubChineseFrom(s, i + 1, repl)

SubChinese(s, repl) == SubChineseFrom(s, 1, repl)

\* ------------------------------------------------------------------------
\* build_new_path
\* ------------------------------------------------------------------------

ResolutionTag(width, height) ==
    <<"_">> \o IntStr(width) \o <<"x">> \o IntStr(height)

\* A variant that appends the resolution whatever the stem ends with.
NewStem_AlwaysAppend(stem0, duration_min, width, height) ==
    SubChinese(stem0, IntStr(duration_min) \o <<"m", "i", "n">>)
        \o ResolutionTag(width, height)

NewStem(stem0, duration_min, width, height) ==
    LET stem == SubChinese(stem0, IntStr(duration_min) \o <<"m", "i", "n">>)
        i    == TrailingResolutionAt(stem)
    IN  IF i > 0
        THEN SubSeq(stem, 1, i - 1) \o ResolutionTag(width, height)
        ELSE stem \o ResolutionTag(width, height)

build_new_path(filepath, duration_min, width, height) ==
    WithStem(filepath, NewStem(PathStem(filepath), duration_min, width, height))

\* ------------------------------------------------------------------------
\* probe_video
\* ------------------------------------------------------------------------

\* What one ffprobe run gives: how the subprocess ended (rc) and the
\* key=value lines of its output as the dict `values` (a function from the
\* keys present to their text).  rc "timeout" is subprocess.TimeoutExpired
\* after 30 seconds, "oserror" an OSError of subprocess.run.

\* int(text): an optional sign and decimal digits, else ValueError.
ParseInt(text) ==
    IF IsDigits(text) THEN [ok |-> TRUE, v |-> DigitsValue(text)]
    ELSE IF Len(text) > 1 /\ text[1] = "-" /\ IsDigits(Drop(text, 2))
         THEN [ok |-> TRUE, v |-> -DigitsValue(Drop(text, 2))]
    ELSE IF Len(text) > 1 /\ text[1] = "+" /\ IsDigits(Drop(text, 2))
         THEN [ok |-> TRUE, v |-> DigitsValue(Drop(text, 2))]
    ELSE [ok |-> FALSE, v |-> 0]

\* float(text), for texts that are a whole number of seconds, "inf" or
\* "nan" (any letter case); anything else is ValueError.
ParseFloat(text) ==
    IF ParseInt(text).ok THEN [kind |-> "num", v |-> ParseInt(text).v]
    ELSE IF Lower(text) = <<"i", "n", "f">> THEN [kind |-> "inf", v |-> 0]
    ELSE IF Lower(text) = <<"n", "a", "n">> THEN [kind |-> "nan", v |-> 0]
    ELSE [kind |-> "error", v |-> 0]

\* round(seconds / 60): Python rounds a half to the even neighbour.
RoundMinutes(seconds) ==
    LET q == seconds \div 60
        r == seconds % 60
    IN  IF r < 30 THEN q
        ELSE IF r > 30 THEN q + 1
        ELSE IF q % 2 = 0 THEN q ELSE q + 1

Max(a, b) == IF a >= b THEN a ELSE b

ProbeNone == [kind |-> "none"]

\* An exception that probe_video does not catch (OverflowError).
ProbeRaised == [kind |-> "raise"]

ProbeTriple(d, w, h) == [kind |-> "ok", duration_min |-> d, width |-> w, height |-> h]

\* values.get(key, 0) followed by int(): the default 0 is already an int.
GetInt(values, key) ==
    IF key \in DOMAIN values THEN ParseInt(values[key]) ELSE [ok |-> TRUE, v |-> 0]

\* values.get("duration", 0) followed by float().
GetFloat(values, key) ==
    IF key \in DOMAIN values THEN ParseFloat(values[key]) ELSE [kind |-> "num", v |-> 0]

probe_video(raw) ==
    IF raw.rc \in {"timeout", "oserror"} THEN ProbeNone
    ELSE IF raw.rc # "ok" THEN ProbeNone
    ELSE LET width   == GetInt(raw.values, "width")
             height  == GetInt(raw.values, "height")
             seconds == GetFloat(raw.values, "duration")
         IN  IF ~width.ok THEN ProbeNone
             ELSE IF ~height.ok THEN ProbeNone
             ELSE IF seconds.kind = "error" THEN ProbeNone
             ELSE IF width.v <= 0 \/ height.v <= 0 THEN ProbeNone
             ELSE IF seconds.kind = "nan" THEN ProbeNone
             ELSE IF seconds.kind = "inf" THEN ProbeRaised
             ELSE ProbeTriple(Max(1, RoundMinutes(seconds.v)), width.v, height.v)

\* ------------------------------------------------------------------------
\* collect_video_files
\* ------------------------------------------------------------------------

\* A set as a sequence, in some order: Path.rglob yields in directory order,
\* which the program does not control.
RECURSIVE SetToSeq(_)
SetToSeq(S) ==
    IF S = {} THEN <<>>
    ELSE LET x == CHOOSE y \in S : TRUE IN <<x>> \o SetToSeq(S \ {x})

\* folder.rglob("*." + ext): the files, at any depth, whose name ends with
\* "." + ext; the match is case-sensitive on POSIX.
RGlob(paths, ext) == {p \in paths : EndsWith(PathName(p), <<".">> \o ext)}

\* list(gen()): for each extension, the matches of *.ext then of *.EXT.
RECURSIVE GenFiles(_, _)
GenFiles(paths, extensions) ==
    IF extensions = <<>> THEN <<>>
    ELSE SetToSeq(RGlob(paths, Head(extensions)))
         \o SetToSeq(RGlob(paths, Upper(Head(extensions))))
         \o GenFiles(paths, Tail(extensions))

\* The loop over `files` with the `seen` set: the first occurrence of each
\* resolved path is kept (no symbolic links: a path resolves to itself).
Unique(files) ==
    SelectSeq([k \in 1..Len(files) |-> <<k, files[k]>>],
              LAMBDA e : \A j \in 1..(e[1] - 1) : files[j] # e[2])

\* sorted(seq, key=...) with keys[i] the key of seq[i]: a stable sort.
StableSort(seq, keys) ==
    LET n == Len(seq)
        Before(j, i) == StrLess(keys[j], keys[i]) \/ (keys[j] = keys[i] /\ j < i)
        Rank(i) == 1 + Cardinality({j \in 1..n : Before(j, i)})
    IN  [r \in 1..n |-> seq[CHOOSE i \in 1..n : Rank(i) = r]]

collect_video_files(paths, extensions) ==
    LET unique == Unique(GenFiles(paths, extensions))
        found  == [k \in 1..Len(unique) |-> unique[k][2]]
    IN  StableSort(found, found)

\* ext.lstrip("."): every leading dot is dropped.
RECURSIVE LStripDot(_)
LStripDot(ext) ==
    IF ext # <<>> /\ Head(ext) = "." THEN LStripDot(Tail(ext)) ELSE ext

\* tuple(ext.lstrip(".") for ext in args.ext)
Extensions(ext_args) == [k \in 1..Len(ext_args) |-> LStripDot(ext_args[k])]

\* ------------------------------------------------------------------------
\* probe_file: the classification of one file
\* ------------------------------------------------------------------------

\* The target of an entry that has none (Python None).
NoPath == <<>>

Entry(old_path, new_path, status) ==
    [old |-> old_path, new |-> new_path, status |-> status]

\* A task of the pool that has not returned yet, one that raised, and one
\* cancelled after another raised.
Pending == Entry(NoPath, NoPath, "pending")
Raised == Entry(NoPath, NoPath, "raised")
Cancelled == Entry(NoPath, NoPath, "cancelled")

\* A variant without the check that the target exists.
TargetExists_Never(new_path, d) == FALSE

\* new_path.exists() on the disk d (a function from the paths of the files
\* to what ffprobe reports of each).
TargetExists(new_path, d) == new_path \in DOMAIN d

probe_file(filepath, d) ==
    IF AlreadyTagged(PathStem(filepath))
    THEN Entry(filepath, NoPath, "SKIP (already tagged)")
    ELSE LET probe_result == probe_video(d[filepath])
         IN  IF probe_result = ProbeRaised THEN Raised
             ELSE IF probe_result = ProbeNone
             THEN Entry(filepath, NoPath, "SKIP (probe failed)")
             ELSE LET new_path == build_new_path(filepath,
                                                 probe_result.duration_min,
                                                 probe_result.width,
                                                 probe_result.height)
                  IN  IF new_path = filepath
                      THEN Entry(filepath, NoPath, "SKIP (already named)")
                      ELSE IF TargetExists(new_path, d)
                      THEN Entry(filepath, new_path, "SKIP (target exists)")
                      ELSE Entry(filepath, new_path, "RENAME")

\* A variant sorting by p[1], the target.
PlanKey_Target(entry) == entry.new

\* The sort key of the plan: str(p[0]), the original path.
PlanKey(entry) == entry.old

\* sorted(results, key=lambda p: str(p[0]))
SortPlan(res) == StableSort(res, [k \in 1..Len(res) |-> PlanKey(res[k])])

\* A variant that goes on as soon as one task has returned.
MapComplete_FirstCompleted(res) == \E k \in 1..Len(res) : res[k].status # "pending"

\* list(executor.map(probe_file, files)) has returned: every task has.
MapComplete(res) == \A k \in 1..Len(res) : res[k].status # "pending"

\* A variant without the dry-run return.
DryRunReturns_Never(apply_flag) == FALSE

\* `if not args.apply: ... return`
DryRunReturns(apply_flag) == ~apply_flag

\* A variant where a failed rename ends the loop.
NextAfterFail_Abort(i, n) == n + 1

\* The apply loop after a failed rename of entry i of n: the except clause
\* counts the failure and the loop goes on with the next entry.
NextAfterFail(i, n) == i + 1

\* os.rename(old, new) succeeding on POSIX: new is replaced if it exists.
Renamed(d, old_path, new_path) ==
    [p \in (DOMAIN d \ {old_path}) \cup {new_path} |->
        IF p = new_path THEN d[old_path] ELSE d[p]]

\* ------------------------------------------------------------------------
\* Bounds and the inputs drawn from them
\* ------------------------------------------------------------------------

\* Files on the disk at the start.
MaxFiles == 2

\* Invocations of the program, one after the other, on the same folder.
MaxRuns == 2

Str_mp4 == <<"m", "p", "4">>

Chinese(n) == <<n, "fen", "zhong">>

\* The paths a file of the folder may have.
DiskNames ==
    { <<"a", ".">> \o Str_mp4,
      <<"a", "_", "1", "x", "1", ".">> \o Str_mp4,
      <<"a", "_", "1", "m", "i", "n", "_", "1", "x", "1", ".">> \o Str_mp4,
      <<"a", "_", "2", "x", "1", ".">> \o Str_mp4,
      Chinese("1") \o <<".">> \o Str_mp4,
      <<"a", ".", "M", "p", "4">>,
      <<"d", "/", "a", ".", "M", "P", "4">> }

RawProbe(rc, values) == [rc |-> rc, values |-> values]

\* What ffprobe reports of a file of the folder.
DiskProbes ==
    { RawProbe("nonzero", <<>>),
      RawProbe("ok", [width |-> <<"2">>, height |-> <<"1">>, duration |-> <<"1", "5", "0">>]),
      RawProbe("ok", [width |-> <<"2">>, height |-> <<"1">>, duration |-> <<"i", "n", "f">>]) }

Disks ==
    UNION { [S -> DiskProbes] : S \in {T \in SUBSET DiskNames : Cardinality(T) <= MaxFiles} }

\* The values of --ext.
ExtArgs == { <<Str_mp4>>, <<<<".", "M", "P", "4">>>> }

\* ------------------------------------------------------------------------
\* State
\* ------------------------------------------------------------------------

VARIABLES
    disk,          \* the folder: path |-> what ffprobe reports of the file
    ext_args,      \* args.ext
    run,           \* invocations started so far
    apply,         \* args.apply of the current invocation
    phase,         \* where main is: "idle", "probing", "applying", "done", "crashed"
    files,         \* collect_video_files' result
    results,       \* the result of each task of executor.map, by position
    order,         \* the tasks that have returned, in the order they did
    plan,          \* the sorted plan
    rename_count,  \* as printed in the preview
    skip_count,
    idx,           \* the position of the apply loop in plan
    success,
    fail,
    log,           \* the "OK" and "FAIL" lines printed, of every invocation
    fin,           \* the arguments of a single function call (SpecFn)
    fpc,
    fout           \* its result

vars == <<disk, ext_args, run, apply, phase, files, results, order, plan, rename_count,
          skip_count, idx, success, fail, log, fin, fpc, fout>>

fnvars == <<fin, fpc, fout>>

NoCall == [kind |-> "none"]

Init ==
    /\ disk \in Disks
    /\ ext_args \in ExtArgs
    /\ run = 0
    /\ apply = FALSE
    /\ phase = "idle"
    /\ files = <<>>
    /\ results = <<>>
    /\ order = <<>>
    /\ plan = <<>>
    /\ rename_count = 0
    /\ skip_count = 0
    /\ idx = 1
    /\ success = 0
    /\ fail = 0
    /\ log = <<>>
    /\ fin = NoCall
    /\ fpc = "off"
    /\ fout = <<>>

CountRename(p) == Cardinality({k \in 1..Len(p) : p[k].status = "RENAME"})

\* main up to the submission of the probe tasks: parse the arguments, collect
\* the files, return if there are none.  (The folder is a directory and
\* ffprobe is installed.)
StartRun(apply_flag) ==
    /\ phase \in {"idle", "done", "crashed"}
    /\ run < MaxRuns
    /\ run' = run + 1
    /\ apply' = apply_flag
    /\ files' = collect_video_files(DOMAIN disk, Extensions(ext_args))
    /\ results' = [k \in 1..Len(files') |-> Pending]
    /\ order' = <<>>
    /\ phase' = IF files' = <<>> THEN "done" ELSE "probing"
    /\ plan' = <<>>
    /\ rename_count' = 0
    /\ skip_count' = 0
    /\ idx' = 1
    /\ success' = 0
    /\ fail' = 0
    /\ UNCHANGED <<disk, ext_args, log, fnvars>>

\* A worker thread of the pool runs probe_file on the i-th file.
ProbeTask(i) ==
    /\ i \in 1..Len(results)
    /\ results[i] = Pending
    /\ results' = [results EXCEPT ![i] = probe_file(files[i], disk)]
    /\ order' = Append(order, i)
    /\ UNCHANGED <<disk, ext_args, run, apply, phase, files, plan, rename_count,
                   skip_count, idx, success, fail, log, fnvars>>

\* list(executor.map(...)) reaches a task that raised: the exception leaves
\* main, the tasks not yet run are cancelled, nothing is renamed.
Crash ==
    /\ phase = "probing"
    /\ \E i \in 1..Len(results) :
          /\ results[i] = Raised
          /\ \A j \in 1..(i - 1) : results[j].status \notin {"pending", "raised"}
    /\ phase' = "crashed"
    /\ results' = [k \in 1..Len(results) |->
                      IF results[k] = Pending THEN Cancelled ELSE results[k]]
    /\ UNCHANGED <<disk, ext_args, run, apply, files, order, plan, rename_count,
                   skip_count, idx, success, fail, log, fnvars>>

\* main from the end of the `with` block to the start of the apply loop:
\* sort the plan, print the preview, return in dry-run mode.
Plan ==
    /\ phase = "probing"
    /\ MapComplete(results)
    /\ \A k \in 1..Len(results) : results[k] # Raised
    /\ plan' = SortPlan(results)
    /\ rename_count' = CountRename(plan')
    /\ skip_count' = Len(plan') - rename_count'
    /\ phase' = IF DryRunReturns(apply) THEN "done" ELSE "applying"
    /\ idx' = 1
    /\ success' = 0
    /\ fail' = 0
    /\ UNCHANGED <<disk, ext_args, run, apply, files, results, order, log, fnvars>>

IsRename(entry) == ~(entry.status # "RENAME" \/ entry.new = NoPath)

LogLine(outcome, entry) ==
    [run |-> run, outcome |-> outcome, old |-> entry.old, new |-> entry.new]

\* One pass of the apply loop over an entry that is not to be renamed.
ApplySkip ==
    /\ phase = "applying"
    /\ idx <= Len(plan)
    /\ ~IsRename(plan[idx])
    /\ idx' = idx + 1
    /\ UNCHANGED <<disk, ext_args, run, apply, phase, files, results, order, plan,
                   rename_count, skip_count, success, fail, log, fnvars>>

\* One pass of the apply loop where os.rename succeeds.
ApplyRenameOK ==
    /\ phase = "applying"
    /\ idx <= Len(plan)
    /\ IsRename(plan[idx])
    /\ plan[idx].old \in DOMAIN disk
    /\ disk' = Renamed(disk, plan[idx].old, plan[idx].new)
    /\ log' = Append(log, LogLine("OK", plan[idx]))
    /\ success' = success + 1
    /\ idx' = idx + 1
    /\ UNCHANGED <<ext_args, run, apply, phase, files, results, order, plan,
                   rename_count, skip_count, fail, fnvars>>

\* One pass of the apply loop where os.rename raises OSError (permission
\* denied, source gone, ...): the disk is as before.
ApplyRenameFail ==
    /\ phase = "applying"
    /\ idx <= Len(plan)
    /\ IsRename(plan[idx])
    /\ log' = Append(log, LogLine("FAIL", plan[idx]))
    /\ fail' = fail + 1
    /\ idx' = NextAfterFail(idx, Len(plan))
    /\ UNCHANGED <<disk, ext_args, run, apply, phase, files, results, order, plan,
                   rename_count, skip_count, success, fnvars>>

\* The apply loop is over: "Done. Renamed: ... | Failed: ..."
ApplyDone ==
    /\ phase = "applying"
    /\ idx > Len(plan)
    /\ phase' = "done"
    /\ UNCHANGED <<disk, ext_args, run, apply, files, results, order, plan,
                   rename_count, skip_count, idx, success, fail, log, fnvars>>

Next ==
    \/ \E apply_flag \in BOOLEAN : StartRun(apply_flag)
    \/ \E i \in 1..Len(results) : ProbeTask(i)
    \/ Crash
    \/ Plan
    \/ ApplySkip
    \/ ApplyRenameOK
    \/ ApplyRenameFail
    \/ ApplyDone

Spec == Init /\ [][Next]_vars

\* ------------------------------------------------------------------------
\* Single calls of build_new_path and probe_video on enumerated arguments
\* ------------------------------------------------------------------------

\* Stems are made of at most MaxPieces pieces, then an optional tag.
MaxPieces == 3

\* Widths and heights run over 1..MaxDim, durations over 1..MaxDur minutes.
MaxDim == 2

MaxDur == 2

FnPieces ==
    { <<"a">>, <<"_">>, <<"1">>, <<"x">>, <<"m", "i", "n">>, <<"fen", "zhong">> }

FnTails ==
    { <<>>,
      <<"_", "3", "x", "4">>,
      <<"_", "5", "m", "i", "n", "_", "3", "x", "4">> }

RECURSIVE PieceStrings(_)
PieceStrings(n) ==
    IF n = 0 THEN {<<>>}
    ELSE LET S == PieceStrings(n - 1)
         IN  S \cup {s \o q : s \in S, q \in FnPieces}

FnStems ==
    {s \o t : s \in PieceStrings(MaxPieces) \ {<<>>}, t \in FnTails}

FnPaths == {stem \o <<".">> \o Str_mp4 : stem \in FnStems}

BuildCalls ==
    [kind : {"build"}, filepath : FnPaths, duration_min : 1..MaxDur,
     width : 1..MaxDim, height : 1..MaxDim]

\* The text ffprobe may print for width or height, and for duration.
DimTexts == { <<"0">>, <<"-", "1">>, <<"1">>, <<"2", "0">>, <<"N", "/", "A">> }

DurationTexts ==
    { <<"0">>, <<"-", "9", "0">>, <<"2", "9">>, <<"8", "9">>, <<"9", "0">>,
      <<"1", "5", "0">>, <<"i", "n", "f">>, <<"n", "a", "n">>, <<"N", "/", "A">> }

ProbeKeys == {"width", "height", "duration"}

ValueDicts ==
    UNION { { f \in [K -> DimTexts \cup DurationTexts] :
                \A k \in K : f[k] \in (IF k = "duration" THEN DurationTexts ELSE DimTexts) }
            : K \in SUBSET ProbeKeys }

ProbeCalls ==
    [kind : {"probe"},
     raw : {RawProbe(rc, v) : rc \in {"timeout", "oserror", "nonzero", "ok"}, v \in ValueDicts}]

InitFn ==
    /\ disk = <<>>
    /\ ext_args = <<Str_mp4>>
    /\ run = 0
    /\ apply = FALSE
    /\ phase = "idle"
    /\ files = <<>>
    /\ results = <<>>
    /\ order = <<>>
    /\ plan = <<>>
    /\ rename_count = 0
    /\ skip_count = 0
    /\ idx = 1
    /\ success = 0
    /\ fail = 0
    /\ log = <<>>
    /\ fin \in BuildCalls \cup ProbeCalls
    /\ fpc = "call"
    /\ fout = <<>>

sysvars == <<disk, ext_args, run, apply, phase, files, results, order, plan, rename_count,
             skip_count, idx, success, fail, log>>

FnBuild ==
    /\ fpc = "call"
    /\ fin.kind = "build"
    /\ fout' = build_new_path(fin.filepath, fin.duration_min, fin.width, fin.height)
    /\ fpc' = "returned"
    /\ UNCHANGED <<fin, sysvars>>

FnProbe ==
    /\ fpc = "call"
    /\ fin.kind = "probe"
    /\ fout' = probe_video(fin.raw)
    /\ fpc' = "returned"
    /\ UNCHANGED <<fin, sysvars>>

NextFn ==
    \/ FnBuild
    \/ FnProbe

SpecFn == InitFn /\ [][NextFn]_vars

\* ------------------------------------------------------------------------
\* Properties
\* ------------------------------------------------------------------------

Range(seq) == {seq[k] : k \in 1..Len(seq)}

\* The "OK" and "FAIL" lines of the current invocation.
RunLog == SelectSeq(log, LAMBDA l : l.run = run)

\* The plan has been computed and no rename of this invocation has been
\* attempted yet: the disk is the one the plan was computed on.
PlanFresh ==
    \/ phase = "applying" /\ idx = 1
    \/ phase = "done" /\ ~apply /\ files # <<>>

\* The files have been collected and nothing has been renamed since.
ScanFresh ==
    \/ phase = "probing"
    \/ phase = "done" /\ files = <<>> /\ run > 0

\* The full tag _{d}min_{w}x{h}.
FullTag(duration_min, width, height) ==
    <<"_">> \o IntStr(duration_min) \o <<"m", "i", "n">> \o ResolutionTag(width, height)

\* C1: for a file whose stem is not already tagged, build_new_path with
\* duration d and resolution w x h returns a name whose stem ends with
\* _{d}min_{w}x{h} and whose extension is the original one.
C1_TagSuffix ==
    (fpc = "returned" /\ fin.kind = "build" /\ ~AlreadyTagged(PathStem(fin.filepath)))
    => /\ EndsWith(PathStem(fout), FullTag(fin.duration_min, fin.width, fin.height))
       /\ PathSuffix(fout) = PathSuffix(fin.filepath)

\* C2: a plan entry is RENAME if and only if it has a target, the target
\* differs from the original path and the target is not on the disk the plan
\* was computed on; and only RENAME entries are ever passed to os.rename.
C2_RenameIff ==
    /\ PlanFresh =>
         \A k \in 1..Len(plan) :
            (plan[k].status = "RENAME")
            <=> (/\ plan[k].new # NoPath
                 /\ plan[k].new # plan[k].old
                 /\ plan[k].new \notin DOMAIN disk)
    /\ \A i \in 1..Len(log) : \A k \in 1..Len(plan) :
         (log[i].run = run /\ plan[k].old = log[i].old) => plan[k].status = "RENAME"

C2_Witness ==
    /\ phase = "done"
    /\ apply
    /\ \E k \in 1..Len(plan) :
          /\ plan[k].status = "SKIP (target exists)"
          /\ plan[k].old \in DOMAIN disk
          /\ plan[k].new \in DOMAIN disk

\* C3: a file renamed by an earlier invocation is classified SKIP (already
\* tagged) or SKIP (already named) by a later one, never RENAME; and
\* build_new_path applied to a planned target, with the same probe result,
\* returns that target.
C3_Idempotent ==
    /\ \A k \in 1..Len(plan) :
          (\E i \in 1..Len(log) :
              log[i].run < run /\ log[i].outcome = "OK" /\ log[i].new = plan[k].old)
          => plan[k].status \in {"SKIP (already tagged)", "SKIP (already named)"}
    /\ PlanFresh =>
          \A k \in 1..Len(plan) :
             plan[k].status = "RENAME" =>
                LET r == probe_video(disk[plan[k].old])
                IN  build_new_path(plan[k].new, r.duration_min, r.width, r.height)
                       = plan[k].new

C3_Witness ==
    /\ run = 2
    /\ \E k \in 1..Len(plan) :
          /\ plan[k].status = "SKIP (already named)"
          /\ \E i \in 1..Len(log) :
                log[i].run = 1 /\ log[i].outcome = "OK" /\ log[i].new = plan[k].old

\* C4: no step of a dry-run invocation changes the disk.
C4_DryRunNoMutation == [][(~apply') => (disk' = disk)]_vars

C4_Witness ==
    /\ phase = "done"
    /\ ~apply
    /\ rename_count > 0

\* C5: at the end of an apply invocation the renames attempted are exactly
\* the RENAME entries of the plan, each once and in plan order, whether or
\* not an earlier one failed, and success + fail is the number of RENAME
\* entries of the preview.
C5_BatchContinues ==
    (phase = "done" /\ apply /\ files # <<>>) =>
        LET renames == SelectSeq(plan, LAMBDA e : e.status = "RENAME")
        IN  /\ Len(RunLog) = Len(renames)
            /\ \A i \in 1..Len(RunLog) :
                  /\ i <= Len(renames)
                  /\ RunLog[i].old = renames[i].old
                  /\ RunLog[i].new = renames[i].new
            /\ success = Cardinality({i \in 1..Len(RunLog) : RunLog[i].outcome = "OK"})
            /\ fail = Cardinality({i \in 1..Len(RunLog) : RunLog[i].outcome = "FAIL"})
            /\ success + fail = rename_count

C5_Witness ==
    /\ phase = "done"
    /\ apply
    /\ Len(RunLog) = 2
    /\ RunLog[1].outcome = "FAIL"
    /\ RunLog[2].outcome = "OK"

\* C6: every file of the folder whose extension equals one of the given
\* extensions, letter case ignored, is in the list collect_video_files
\* returns.
C6_CaseInsensitive ==
    ScanFresh =>
        \A p \in DOMAIN disk :
            (\E e \in Range(Extensions(ext_args)) :
                Lower(PathSuffix(p)) = <<".">> \o Lower(e))
            => p \in Range(files)

\* C7: once the apply loop has started, every probe task has returned a
\* classification, the plan holds the classification of every collected
\* file, and every rename attempted is a RENAME entry of that plan.
C7_PlanThenExecute ==
    (phase = "applying" \/ RunLog # <<>>) =>
        /\ Len(results) = Len(files)
        /\ \A k \in 1..Len(results) :
              results[k].status \notin {"pending", "raised", "cancelled"}
        /\ Len(order) = Len(files)
        /\ Len(plan) = Len(files)
        /\ Range(plan) = Range(results)
        /\ \A i \in 1..Len(RunLog) : \E k \in 1..Len(plan) :
              /\ plan[k].status = "RENAME"
              /\ plan[k].old = RunLog[i].old
              /\ plan[k].new = RunLog[i].new

C7_Witness ==
    /\ phase = "applying"
    /\ Len(files) = 2
    /\ success = 1
    /\ idx = 2

\* C8: probe_video returns None when ffprobe times out, exits non-zero,
\* omits width, height or duration or prints an unparseable value for one of
\* them, or reports a width or height that is not positive.
C8_FailureIsNone ==
    (fpc = "returned" /\ fin.kind = "probe") =>
        LET raw == fin.raw
            Bad(key) ==
                \/ key \notin DOMAIN raw.values
                \/ IF key = "duration"
                   THEN ParseFloat(raw.values[key]).kind = "error"
                   ELSE \/ ~ParseInt(raw.values[key]).ok
                        \/ ParseInt(raw.values[key]).v <= 0
        IN  (raw.rc \in {"timeout", "nonzero"} \/ \E key \in ProbeKeys : Bad(key))
            => fout = ProbeNone

\* C9: whatever the order in which the probe tasks return, the plan has one
\* entry per collected file, in the order of the original paths, and each
\* entry is the classification of its file on the disk as it was scanned.
C9_PlanDeterministic ==
    (phase = "applying" \/ (phase = "done" /\ files # <<>>)) =>
        /\ Len(plan) = Len(files)
        /\ \A k \in 1..Len(plan) : plan[k].old = files[k]
        /\ \A k \in 1..(Len(plan) - 1) : StrLess(plan[k].old, plan[k + 1].old)
        /\ PlanFresh => \A k \in 1..Len(plan) : plan[k] = probe_file(files[k], disk)

C9_Witness ==
    /\ PlanFresh
    /\ order = <<2, 1>>
    /\ plan[1].status = "RENAME"
    /\ plan[2].status # "RENAME"

\* C10: no two RENAME entries of a plan have the same target, and the
\* target of the rename the apply loop is about to make holds no file.
C10_NoOverwrite ==
    /\ \A j, k \in 1..Len(plan) :
          (j # k /\ plan[j].status = "RENAME" /\ plan[k].status = "RENAME")
          => plan[j].new # plan[k].new
    /\ (phase = "applying" /\ idx <= Len(plan) /\ plan[idx].status = "RENAME")
          => plan[idx].new \notin DOMAIN disk

=============================================================================
